---- MODULE Spec2Model ----
(***************************************************************************)
(* Model of the documentation pipeline of src/documenter.py.               *)
(*                                                                         *)
(* A Python str is a sequence of one-character strings, so that the        *)
(* regular expression of parse_sections, str.strip, str.replace,           *)
(* str.lower, str.startswith, str.endswith and slicing are computed        *)
(* character by character, as the interpreter computes them.               *)
(*                                                                         *)
(* Two specifications:                                                     *)
(*   SpecParse  parse_sections applied to texts drawn from a bounded set   *)
(*   Spec       one run of main(zip_filename) over a bounded archive       *)
(***************************************************************************)
EXTENDS Integers, Sequences, FiniteSets, TLC

VARIABLES
    \* ---- SpecParse: one call of parse_sections ----
    segs,            \* how the input text was put together: <<marker, body>> pairs
    text,            \* the argument of parse_sections
    section_dict,    \* its return value (NotCalled before the call)
    \* ---- Spec: one run of main ----
    pc,              \* position of main
    archive,         \* the files of the ZIP, in os.walk order
    tempdir,         \* TRUE while the TemporaryDirectory exists on disk
    file_data,       \* list of (file, content) returned by read_files
    project_summary, \* str
    file_summaries,  \* dict, as the list of its (key, value) items in dict order
    idx,             \* loop index of "for file_name, file_content in file_data"
    inflight,        \* number of client.chat calls that have not returned yet
    calls,           \* the prompts the backend has received, in order
    outcomes,        \* what client.chat did with each of them: a text, or Raise
    outputs_dir,     \* TRUE once os.makedirs created OUTPUTS_DIR in this run
    docx,            \* the .docx output file of this run
    md,              \* the .md output file of this run
    stdout           \* the lines printed so far

vars == <<segs, text, section_dict, pc, archive, tempdir, file_data,
          project_summary, file_summaries, idx, inflight, calls, outcomes,
          outputs_dir, docx, md, stdout>>

parseVars == <<segs, text, section_dict>>

mainVars == <<pc, archive, tempdir, file_data, project_summary, file_summaries,
              idx, inflight, calls, outcomes, outputs_dir, docx, md, stdout>>

(***************************************************************************)
(* Bounds of the model.                                                    *)
(***************************************************************************)
MaxSegs == 3     \* a text is at most this many <<marker, body>> segments
MaxFiles == 3    \* an archive holds at most this many files

(***************************************************************************)
(* Python str operations.                                                  *)
(***************************************************************************)
Min(a, b) == IF a < b THEN a ELSE b

\* the characters str.strip() and the regex class \s remove
IsSpace(c) == c \in {" ", "\n", "\t"}

\* s[:n]
Prefix(s, n) == SubSeq(s, 1, Min(n, Len(s)))

\* s[n:]
Suffix(s, n) == SubSeq(s, Min(n, Len(s)) + 1, Len(s))

\* s.startswith(p)
StartsWith(s, p) == Len(s) >= Len(p) /\ SubSeq(s, 1, Len(p)) = p

\* s.endswith(p)
EndsWith(s, p) == Len(s) >= Len(p) /\ SubSeq(s, Len(s) - Len(p) + 1, Len(s)) = p

\* the non-empty p occurs in s at the (1-based) position i
OccursAt(s, p, i) ==
    /\ i >= 1
    /\ i + Len(p) - 1 <= Len(s)
    /\ s[i] = p[1]
    /\ SubSeq(s, i, i + Len(p) - 1) = p

RECURSIVE LStrip(_)
LStrip(s) == IF s # <<>> /\ IsSpace(Head(s)) THEN LStrip(Tail(s)) ELSE s

RECURSIVE RStrip(_)
RStrip(s) ==
    IF s # <<>> /\ IsSpace(s[Len(s)]) THEN RStrip(SubSeq(s, 1, Len(s) - 1)) ELSE s

\* s.strip()
Strip(s) == RStrip(LStrip(s))

\* s.lstrip(':')
RECURSIVE LStripColon(_)
LStripColon(s) == IF s # <<>> /\ Head(s) = ":" THEN LStripColon(Tail(s)) ELSE s

\* s.replace('\n', ' ')
ReplaceNewlines(s) == [i \in 1..Len(s) |-> IF s[i] = "\n" THEN " " ELSE s[i]]

LowerChar(c) ==
    CASE c = "P" -> "p"
      [] c = "W" -> "w"
      [] c = "E" -> "e"
      [] c = "X" -> "x"
      [] OTHER -> c

\* s.lower(), on the letters the model's texts are made of
Lower(s) == [i \in 1..Len(s) |-> LowerChar(s[i])]

\* sep.join(parts)
RECURSIVE Join(_, _)
Join(parts, sep) ==
    IF parts = <<>> THEN <<>>
    ELSE IF Len(parts) = 1 THEN parts[1]
    ELSE parts[1] \o sep \o Join(Tail(parts), sep)

(***************************************************************************)
(* parse_sections                                                          *)
(***************************************************************************)
Purpose == <<"P", "u", "r", "p", "o", "s", "e">>
Working == <<"W", "o", "r", "k", "i", "n", "g">>
Errors == <<"E", "r", "r", "o", "r", "s">>
NotProvided ==
    <<"(", "N", "o", "t", " ", "p", "r", "o", "v", "i", "d", "e", "d", ")">>

\* the alternation (Purpose|Working|Errors), in the order the regex tries it
Keys == <<Purpose, Working, Errors>>

KeySet == {Keys[i] : i \in 1..Len(Keys)}

PurposeMarker == Purpose \o <<":">>
WorkingMarker == Working \o <<":">>
ErrorsMarker == Errors \o <<":">>

\* the key k for which "k:" matches at position i; <<>> when there is none
MarkerAt(s, i) ==
    IF OccursAt(s, PurposeMarker, i) THEN Purpose
    ELSE IF OccursAt(s, WorkingMarker, i) THEN Working
    ELSE IF OccursAt(s, ErrorsMarker, i) THEN Errors
    ELSE <<>>

\* the lookahead (?=(?:Purpose|Working|Errors):|$) at position i. Without
\* re.MULTILINE, $ matches at the end of the string and before a newline
\* that is the last character of the string.
Lookahead(s, i) ==
    \/ MarkerAt(s, i) # <<>>
    \/ i = Len(s) + 1
    \/ i = Len(s) /\ s[i] = "\n"

\* \s* is greedy: the first position from i on that holds no white space
RECURSIVE SkipSpace(_, _)
SkipSpace(s, i) ==
    IF i <= Len(s) /\ IsSpace(s[i]) THEN SkipSpace(s, i + 1) ELSE i

\* (.*?) with re.DOTALL is lazy: it ends at the first position from i on
\* where the lookahead matches
RECURSIVE BodyEnd(_, _)
BodyEnd(s, i) == IF Lookahead(s, i) THEN i ELSE BodyEnd(s, i + 1)

\* re.findall(pattern, text, re.DOTALL): the (key, val) groups of the
\* non-overlapping matches, scanning from position i
RECURSIVE FindAll(_, _)
FindAll(s, i) ==
    IF i > Len(s) THEN <<>>
    ELSE IF MarkerAt(s, i) = <<>> THEN FindAll(s, i + 1)
    ELSE LET key == MarkerAt(s, i)
             b == SkipSpace(s, i + Len(key) + 1)
             e == BodyEnd(s, b)
         IN  <<<<key, SubSeq(s, b, e - 1)>>>> \o FindAll(s, e)

\* lines 112-115: the value stored for one (key, val) match
CleanVal(key, val) ==
    LET stripped == ReplaceNewlines(Strip(val))
        clean_val ==
            IF StartsWith(Lower(stripped), Lower(key))
            THEN Strip(LStripColon(Suffix(stripped, Len(key))))
            ELSE stripped
    IN  IF clean_val # <<>> THEN clean_val ELSE NotProvided

\* DictPut with a slip: a key already stored keeps its first value
DictPut_KeepFirst(d, k, v) ==
    IF k \in DOMAIN d THEN d
    ELSE [x \in (DOMAIN d) \cup {k} |-> IF x = k THEN v ELSE d[x]]

\* d[k] = v on a dict held as a function
DictPut(d, k, v) == [x \in (DOMAIN d) \cup {k} |-> IF x = k THEN v ELSE d[x]]

\* lines 111-115: the loop over the matches
RECURSIVE StoreMatches(_, _)
StoreMatches(d, match) ==
    IF match = <<>> THEN d
    ELSE StoreMatches(DictPut(d, match[1][1], CleanVal(match[1][1], match[1][2])),
                      Tail(match))

\* FillDefault with a slip: a missing key is left out
FillDefault_Skip(d, key) == d

\* lines 116-118: the default of one key
FillDefault(d, key) == IF key \in DOMAIN d THEN d ELSE DictPut(d, key, NotProvided)

parse_sections(raw) ==
    LET match == FindAll(raw, 1)
        filled == StoreMatches([x \in {} |-> <<>>], match)
    IN  FillDefault(FillDefault(FillDefault(filled, Purpose), Working), Errors)

(***************************************************************************)
(* Constant texts of documenter.py.                                        *)
(***************************************************************************)
\* '(Error during generation)' (line 58)
Sentinel ==
    <<"(", "E", "r", "r", "o", "r", " ", "d", "u", "r", "i",
      "n", "g", " ", "g", "e", "n", "e", "r", "a", "t", "i",
      "o", "n", ")">>

\* 'Project Documentation' (line 123)
ProjectDocumentation ==
    <<"P", "r", "o", "j", "e", "c", "t", " ", "D", "o", "c",
      "u", "m", "e", "n", "t", "a", "t", "i", "o", "n">>

\* 'Project Level Summary' (line 124)
ProjectLevelSummary ==
    <<"P", "r", "o", "j", "e", "c", "t", " ", "L", "e", "v",
      "e", "l", " ", "S", "u", "m", "m", "a", "r", "y">>

\* 'File Level Summaries' (line 127)
FileLevelSummaries ==
    <<"F", "i", "l", "e", " ", "L", "e", "v", "e", "l", " ",
      "S", "u", "m", "m", "a", "r", "i", "e", "s">>

\* '\n---\n' (lines 139, 146)
Rule ==
    <<"\n", "-", "-", "-", "\n">>

\* '- **' (line 145)
BulletOpen ==
    <<"-", " ", "*", "*">>

\* ':** ' (line 145)
BulletClose ==
    <<":", "*", "*", " ">>

\* the suffixes of line 37
Extensions ==
    { <<".", "p", "y">>,
      <<".", "j", "s">>,
      <<".", "j", "a", "v", "a">>,
      <<".", "c", "p", "p">>,
      <<".", "c">>,
      <<".", "h", "t", "m", "l">>,
      <<".", "c", "s", "s">>,
      <<".", "t", "s">>,
      <<".", "p", "h", "p">>,
      <<".", "g", "o">> }

\* the caps of the two prompts
ProjectCap == 6000
FileCap == 2000

(***************************************************************************)
(* read_files                                                              *)
(***************************************************************************)
\* file.endswith(('.py', '.js', ...))
HasCodeExtension(file) == \E ext \in Extensions : EndsWith(file, ext)

\* the loop of lines 35-44 over the files of the tree, in os.walk order; a
\* file is a record [dir, name, content, readable], and open/read raises
\* for a file that is not readable
RECURSIVE read_files(_)
read_files(tree) ==
    IF tree = <<>> THEN <<>>
    ELSE LET f == Head(tree)
         IN  IF HasCodeExtension(f.name) /\ f.readable
             THEN <<<<f.name, f.content>>>> \o read_files(Tail(tree))
             ELSE read_files(Tail(tree))

\* the "[!] Error reading" lines read_files prints
RECURSIVE read_files_prints(_)
read_files_prints(tree) ==
    IF tree = <<>> THEN <<>>
    ELSE LET f == Head(tree)
         IN  IF HasCodeExtension(f.name) /\ ~f.readable
             THEN <<<<"[!] Error reading", f.dir \o <<"/">> \o f.name>>>>
                      \o read_files_prints(Tail(tree))
             ELSE read_files_prints(Tail(tree))

(***************************************************************************)
(* generate_text and the two prompts                                       *)
(***************************************************************************)
\* what client.chat does with one request: it raises ...
Raise == <<"raise">>

\* ... or it returns one of these texts
Responses ==
    { Purpose \o <<":", " ", "x", "\n">> \o Working \o <<":", " ", "y", "\n">>,
      <<"z">> }

\* lines 48-58. raised: an exception leaves generate_text; value: what it
\* returns otherwise
generate_text(reply) ==
    IF reply = Raise
    THEN [raised |-> FALSE, value |-> Sentinel]
    ELSE [raised |-> FALSE, value |-> Strip(reply)]

\* "\n\n".join(content for _, content in file_data)
all_code_combined(fd) ==
    Join([i \in 1..Len(fd) |-> fd[i][2]], <<"\n", "\n">>)

\* the prompt of generate_project_summary: the fixed template around
\* all_code_combined[:6000]
project_prompt(fd) ==
    [kind |-> "project", file_name |-> <<>>,
     code |-> Prefix(all_code_combined(fd), ProjectCap)]

\* the prompt of generate_file_summary: the fixed template around the file
\* name and file_content[:2000]
file_prompt(file_name, file_content) ==
    [kind |-> "file", file_name |-> file_name,
     code |-> Prefix(file_content, FileCap)]

(***************************************************************************)
(* file_summaries, a dict: the list of its items, in insertion order       *)
(***************************************************************************)
DictHas(d, k) == \E i \in 1..Len(d) : d[i][1] = k

DictGet(d, k) == d[CHOOSE i \in 1..Len(d) : d[i][1] = k][2]

\* DictSetItem with a slip: a key the dict holds keeps its value
DictSetItem_KeepFirst(d, k, v) ==
    IF DictHas(d, k) THEN d ELSE Append(d, <<k, v>>)

\* d[k] = v: a key the dict holds keeps its place and takes the new value
DictSetItem(d, k, v) ==
    IF DictHas(d, k)
    THEN [i \in 1..Len(d) |-> IF d[i][1] = k THEN <<k, v>> ELSE d[i]]
    ELSE Append(d, <<k, v>>)

(***************************************************************************)
(* create_docx and create_markdown                                         *)
(***************************************************************************)
Absent == [state |-> "absent", body |-> <<>>]

\* a write that failed midway: the file is there, its content is not whole
Partial == [state |-> "partial", body |-> <<>>]

\* lines 128-131: a heading and a paragraph per item
RECURSIVE docx_file_blocks(_)
docx_file_blocks(items) ==
    IF items = <<>> THEN <<>>
    ELSE << <<"heading 2", Head(items)[1]>>, <<"paragraph", Head(items)[2]>> >>
             \o docx_file_blocks(Tail(items))

\* lines 122-132: the document is the list of its headings and paragraphs
create_docx(summary, items) ==
    [state |-> "written",
     body |-> << <<"title", ProjectDocumentation>>,
                 <<"heading 1", ProjectLevelSummary>>,
                 <<"paragraph", summary>>,
                 <<"heading 1", FileLevelSummaries>> >>
              \o docx_file_blocks(items)]

\* line 145
bullet(section, parsed) == BulletOpen \o section \o BulletClose \o parsed[section]

\* lines 141-146
RECURSIVE markdown_file_lines(_)
markdown_file_lines(items) ==
    IF items = <<>> THEN <<>>
    ELSE LET parsed == parse_sections(Head(items)[2])
         IN  << <<"#", "#", "#", " ">> \o Head(items)[1] \o <<"\n">>,
                bullet(Purpose, parsed),
                bullet(Working, parsed),
                bullet(Errors, parsed),
                Rule >>
             \o markdown_file_lines(Tail(items))

\* lines 135-149: the file holds '\n'.join(lines)
create_markdown(summary, items) ==
    [state |-> "written",
     body |-> Join(<< <<"#", " ">> \o ProjectDocumentation \o <<"\n">>,
                      <<"#", "#", " ">> \o ProjectLevelSummary \o <<"\n">>,
                      Strip(summary),
                      Rule,
                      <<"#", "#", " ">> \o FileLevelSummaries \o <<"\n">> >>
                   \o markdown_file_lines(items),
                   <<"\n">>)]

(***************************************************************************)
(* SpecParse: parse_sections(summary), as create_markdown calls it on the  *)
(* text a backend returned. The text is a preamble followed by segments,   *)
(* each a marker "<key>:" followed by a body.                              *)
(***************************************************************************)
NotCalled == <<"not called">>

\* the bodies a segment is drawn from
Bodies ==
    { <<" ", "\n">>,                                      \* " \n"
      <<" ", "x">>,                                       \* " x"
      <<"\n", "x", "\n", "y", "\n">>,                     \* "\nx\ny\n"
      <<" ", "p", "u", "r", "p", "o", "s", "e", " ", "z">> \* " purpose z"
    }

\* the prose a backend may put before the first marker
Preamble == <<"x", "\n">>

\* a marker followed by a body
Segments == KeySet \X Bodies

\* a segment with no marker is prose
SegText(seg) == IF seg[1] = <<>> THEN seg[2] ELSE seg[1] \o <<":">> \o seg[2]

RECURSIVE Flatten(_)
Flatten(ss) == IF ss = <<>> THEN <<>> ELSE SegText(Head(ss)) \o Flatten(Tail(ss))

\* no preamble or one, then at most MaxSegs segments
SegSeqs ==
    {pre \o ss : pre \in {<<>>, <<<<<<>>, Preamble>>>>},
                 ss \in UNION {[1..n -> Segments] : n \in 0..MaxSegs}}

\* the run of main is not started in SpecParse
MainIdle ==
    /\ pc = "idle"
    /\ archive = <<>>
    /\ tempdir = FALSE
    /\ file_data = <<>>
    /\ project_summary = <<>>
    /\ file_summaries = <<>>
    /\ idx = 0
    /\ inflight = 0
    /\ calls = <<>>
    /\ outcomes = <<>>
    /\ outputs_dir = FALSE
    /\ docx = Absent
    /\ md = Absent
    /\ stdout = <<>>

InitParse ==
    /\ segs \in SegSeqs
    /\ text = Flatten(segs)
    /\ section_dict = NotCalled
    /\ MainIdle

CallParseSections ==
    /\ section_dict = NotCalled
    /\ section_dict' = parse_sections(text)
    /\ UNCHANGED <<segs, text>>
    /\ UNCHANGED mainVars

NextParse == CallParseSections

SpecParse == InitParse /\ [][NextParse]_vars

(***************************************************************************)
(* What a text holds, read off the text itself (not off the regex).        *)
(***************************************************************************)
\* the marker "<key>:" stands at position i
IsOccurrence(s, key, i) ==
    /\ i + Len(key) <= Len(s)
    /\ \A j \in 1..Len(key) : s[i + j - 1] = key[j]
    /\ s[i + Len(key)] = ":"

IsMarkerStart(s, i) == \E key \in KeySet : IsOccurrence(s, key, i)

\* the first position from i on where "<key>:" stands; Len(s) + 1 if none
RECURSIVE FirstFrom(_, _, _)
FirstFrom(s, key, i) ==
    IF i > Len(s) \/ IsOccurrence(s, key, i) THEN i ELSE FirstFrom(s, key, i + 1)

\* the last position up to i where "<key>:" stands; 0 if none
RECURSIVE LastUpTo(_, _, _)
LastUpTo(s, key, i) ==
    IF i < 1 \/ IsOccurrence(s, key, i) THEN i ELSE LastUpTo(s, key, i - 1)

FirstOccurrence(s, key) == FirstFrom(s, key, 1)

LastOccurrence(s, key) == LastUpTo(s, key, Len(s))

\* the first position from i on where any marker stands; Len(s) + 1 if none
RECURSIVE NextMarker(_, _)
NextMarker(s, i) ==
    IF i > Len(s) \/ IsMarkerStart(s, i) THEN i ELSE NextMarker(s, i + 1)

\* the text between the marker at position i and the next marker (or the end)
RawBody(s, key, i) ==
    SubSeq(s, i + Len(key) + 1, NextMarker(s, i + Len(key) + 1) - 1)

\* a body that holds a marker
HoldsMarker(b) == NextMarker(b, 1) <= Len(b)

\* "Purpose: <p> Working: <w> Errors: <e>", each body non-empty once trimmed
\* and holding no marker
Canonical(ss) ==
    /\ Len(ss) = 3
    /\ \A i \in 1..3 : ss[i][1] = Keys[i]
    /\ \A i \in 1..3 : Strip(ss[i][2]) # <<>> /\ ~HoldsMarker(ss[i][2])

\* C1: parse_sections returns a mapping whose keys are exactly Purpose,
\* Working and Errors and none of whose values is the empty string; a marker
\* that does not occur in the text, or whose (last) occurrence has a
\* white-space-only body, maps to "(Not provided)".
C1_ThreeKeysNoEmptyValue ==
    section_dict # NotCalled =>
        /\ DOMAIN section_dict = KeySet
        /\ \A key \in KeySet :
            LET last == LastOccurrence(text, key)
            IN  /\ section_dict[key] # <<>>
                /\ last = 0 => section_dict[key] = NotProvided
                /\ (last >= 1 /\ Strip(RawBody(text, key, last)) = <<>>)
                       => section_dict[key] = NotProvided

\* C1 witness: parse_sections has returned for a text where one marker is
\* absent, one has a white-space-only body and one has a real body.
C1_Witness ==
    LET lastW == LastOccurrence(text, Working)
    IN  /\ section_dict # NotCalled
        /\ LastOccurrence(text, Purpose) = 0
        /\ lastW >= 1 /\ Strip(RawBody(text, Working, lastW)) = <<>>
        /\ LastOccurrence(text, Errors) >= 1 /\ section_dict[Errors] # NotProvided

\* C2 (as claimed): for "Purpose: <p> Working: <w> Errors: <e>" the result is
\* exactly the three bodies, trimmed and with newlines turned into spaces,
\* no other character removed.
C2_CanonicalBodiesRecovered ==
    (section_dict # NotCalled /\ Canonical(segs)) =>
        \A i \in 1..3 : section_dict[Keys[i]] = ReplaceNewlines(Strip(segs[i][2]))

FileChoices ==
    { [dir |-> <<"d", "1">>, name |-> <<"a", ".", "p", "y">>,
       content |-> <<"p">>, readable |-> TRUE],
      [dir |-> <<"d", "2">>, name |-> <<"a", ".", "p", "y">>,
       content |-> <<"q">>, readable |-> TRUE],
      [dir |-> <<"d", "1">>, name |-> <<"b", ".", "j", "s">>,
       content |-> <<"r">>, readable |-> TRUE],
      [dir |-> <<"d", "1">>, name |-> <<"t", ".", "t", "x", "t">>,
       content |-> <<"s">>, readable |-> TRUE],
      [dir |-> <<"d", "2">>, name |-> <<"c", ".", "p", "y">>,
       content |-> <<>>, readable |-> FALSE] }

\* os.walk lists every path once, the files of one directory together
WalkOrder(tree) ==
    /\ \A i, j \in 1..Len(tree) : tree[i] = tree[j] => i = j
    /\ \A i, j, k \in 1..Len(tree) :
           (i < j /\ j < k /\ tree[i].dir = tree[k].dir) => tree[j].dir = tree[i].dir

Archives ==
    {tree \in UNION {[1..n -> FileChoices] : n \in 0..MaxFiles} : WalkOrder(tree)}

\* TemporaryDirectoryExit with a slip: the directory is removed at the end
\* of the block only, not when an exception leaves it
TemporaryDirectoryExit_LeakOnError(raised) == raised

\* EmptyCorpus with a slip: the check is never true
EmptyCorpus_Never(fd) == FALSE

\* MoreFiles with a slip: the loop is left after its first file
MoreFiles_StopAfterFirst(i, n) == FALSE

\* line 159: whether the TemporaryDirectory is still on disk once the with
\* block is left, by an exception (raised) or not
TemporaryDirectoryExit(raised) == FALSE

\* line 166: "if not file_data"
EmptyCorpus(fd) == fd = <<>>

\* line 177: the for loop goes on after the i-th of n files
MoreFiles(i, n) == i < n

Say(msg) == <<msg, <<>>>>

Init ==
    /\ segs = <<>>
    /\ text = <<>>
    /\ section_dict = NotCalled
    /\ pc = "cli"
    /\ archive \in Archives
    /\ tempdir = FALSE
    /\ file_data = <<>>
    /\ project_summary = <<>>
    /\ file_summaries = <<>>
    /\ idx = 0
    /\ inflight = 0
    /\ calls = <<>>
    /\ outcomes = <<>>
    /\ outputs_dir = FALSE
    /\ docx = Absent
    /\ md = Absent
    /\ stdout = <<>>

\* lines 20-22 and 192-201: the credential, then the archive, are looked for
EntryPoint(env) ==
    /\ pc = "cli"
    /\ CASE env = "no api key" ->
              /\ pc' = "raised_import"
              /\ UNCHANGED stdout
         [] env = "no archive" ->
              /\ pc' = "not_found"
              /\ stdout' = Append(stdout, Say("[!] File not found"))
         [] OTHER ->
              /\ pc' = "main"
              /\ UNCHANGED stdout
    /\ UNCHANGED <<archive, tempdir, file_data, project_summary, file_summaries,
                   idx, inflight, calls, outcomes, outputs_dir, docx, md>>
    /\ UNCHANGED parseVars

\* lines 153-160: the with block is entered
EnterMain ==
    /\ pc = "main"
    /\ tempdir' = TRUE
    /\ stdout' = Append(stdout, Say("[+] Extracting ZIP..."))
    /\ pc' = "extract"
    /\ UNCHANGED <<archive, file_data, project_summary, file_summaries, idx,
                   inflight, calls, outcomes, outputs_dir, docx, md>>
    /\ UNCHANGED parseVars

\* line 161: extract_zip returns, or raises on an archive it cannot read
ExtractZip(ok) ==
    /\ pc = "extract"
    /\ IF ok
       THEN /\ pc' = "read"
            /\ UNCHANGED tempdir
       ELSE /\ pc' = "raised_extract"
            /\ tempdir' = TemporaryDirectoryExit(TRUE)
    /\ UNCHANGED <<archive, file_data, project_summary, file_summaries, idx,
                   inflight, calls, outcomes, outputs_dir, docx, md, stdout>>
    /\ UNCHANGED parseVars

\* lines 163-170
ReadFiles ==
    /\ pc = "read"
    /\ file_data' = read_files(archive)
    /\ IF EmptyCorpus(file_data')
       THEN /\ stdout' = stdout \o <<Say("[+] Reading files...")>>
                             \o read_files_prints(archive)
                             \o <<Say("[!] No code files found.")>>
            /\ pc' = "returned"
            /\ tempdir' = TemporaryDirectoryExit(FALSE)
       ELSE /\ stdout' = stdout \o <<Say("[+] Reading files...")>>
                             \o read_files_prints(archive)
            /\ pc' = "project"
            /\ UNCHANGED tempdir
    /\ UNCHANGED <<archive, project_summary, file_summaries, idx, inflight,
                   calls, outcomes, outputs_dir, docx, md>>
    /\ UNCHANGED parseVars

\* lines 172-173, 61-81, 49: the request for the project summary is sent
ProjectCall ==
    /\ pc = "project"
    /\ stdout' = Append(stdout, Say("[+] Generating project level summary..."))
    /\ calls' = Append(calls, project_prompt(file_data))
    /\ inflight' = inflight + 1
    /\ pc' = "project_wait"
    /\ UNCHANGED <<archive, tempdir, file_data, project_summary, file_summaries,
                   idx, outcomes, outputs_dir, docx, md>>
    /\ UNCHANGED parseVars

\* lines 49-58, 173-176: client.chat answers or raises
ProjectReturn(reply) ==
    /\ pc = "project_wait"
    /\ inflight' = inflight - 1
    /\ outcomes' = Append(outcomes, reply)
    /\ LET r == generate_text(reply)
           printed == IF reply = Raise
                      THEN Append(stdout, Say("[!] API Error"))
                      ELSE stdout
       IN  IF r.raised
           THEN /\ pc' = "raised_generate"
                /\ tempdir' = TemporaryDirectoryExit(TRUE)
                /\ stdout' = printed
                /\ UNCHANGED <<project_summary, idx>>
           ELSE /\ project_summary' = r.value
                /\ stdout' =
                       Append(printed, Say("[+] Generating file level summaries..."))
                /\ idx' = 1
                /\ pc' = IF Len(file_data) >= 1 THEN "files" ELSE "docx"
                /\ UNCHANGED tempdir
    /\ UNCHANGED <<archive, file_data, file_summaries, calls, outputs_dir, docx, md>>
    /\ UNCHANGED parseVars

\* lines 177-178, 83-106, 49: the request for the idx-th file is sent
FileCall ==
    /\ pc = "files"
    /\ calls' = Append(calls, file_prompt(file_data[idx][1], file_data[idx][2]))
    /\ inflight' = inflight + 1
    /\ pc' = "file_wait"
    /\ UNCHANGED <<archive, tempdir, file_data, project_summary, file_summaries,
                   idx, outcomes, outputs_dir, docx, md, stdout>>
    /\ UNCHANGED parseVars

\* lines 49-58, 178-179: client.chat answers or raises
FileReturn(reply) ==
    /\ pc = "file_wait"
    /\ inflight' = inflight - 1
    /\ outcomes' = Append(outcomes, reply)
    /\ LET r == generate_text(reply)
           printed == IF reply = Raise
                      THEN Append(stdout, Say("[!] API Error"))
                      ELSE stdout
       IN  IF r.raised
           THEN /\ pc' = "raised_generate"
                /\ tempdir' = TemporaryDirectoryExit(TRUE)
                /\ stdout' = printed
                /\ UNCHANGED <<file_summaries, idx>>
           ELSE /\ file_summaries' =
                       DictSetItem(file_summaries, file_data[idx][1], r.value)
                /\ stdout' = printed
                /\ idx' = idx + 1
                /\ pc' = IF MoreFiles(idx, Len(file_data)) THEN "files" ELSE "docx"
                /\ UNCHANGED tempdir
    /\ UNCHANGED <<archive, file_data, project_summary, calls, outputs_dir, docx, md>>
    /\ UNCHANGED parseVars

\* lines 181-183, 121-132: os.makedirs, then create_docx; doc.save may raise
\* before or after it has put bytes in the file
CreateDocx(result) ==
    /\ pc = "docx"
    /\ stdout' = Append(stdout, Say("[+] Creating DOCX..."))
    /\ CASE result = "makedirs raises" ->
              /\ pc' = "raised_makedirs"
              /\ tempdir' = TemporaryDirectoryExit(TRUE)
              /\ UNCHANGED <<outputs_dir, docx>>
         [] result = "save raises" ->
              /\ pc' = "raised_docx"
              /\ tempdir' = TemporaryDirectoryExit(TRUE)
              /\ outputs_dir' = TRUE
              /\ docx' \in {Absent, Partial}
         [] OTHER ->
              /\ pc' = "markdown"
              /\ outputs_dir' = TRUE
              /\ docx' = create_docx(project_summary, file_summaries)
              /\ UNCHANGED tempdir
    /\ UNCHANGED <<archive, file_data, project_summary, file_summaries, idx,
                   inflight, calls, outcomes, md>>
    /\ UNCHANGED parseVars

\* lines 185-188, 134-149: create_markdown; open or write may raise before
\* or after bytes are in the file
CreateMarkdown(result) ==
    /\ pc = "markdown"
    /\ tempdir' = TemporaryDirectoryExit(result = "write raises")
    /\ IF result = "write raises"
       THEN /\ pc' = "raised_markdown"
            /\ md' \in {Absent, Partial}
            /\ stdout' = Append(stdout, Say("[+] Creating Markdown..."))
       ELSE /\ pc' = "done"
            /\ md' = create_markdown(project_summary, file_summaries)
            /\ stdout' = stdout \o <<Say("[+] Creating Markdown..."),
                                    Say("[v] Documentation created successfully")>>
    /\ UNCHANGED <<archive, file_data, project_summary, file_summaries, idx,
                   inflight, calls, outcomes, outputs_dir, docx>>
    /\ UNCHANGED parseVars

Next ==
    \/ \E env \in {"no api key", "no archive", "ok"} : EntryPoint(env)
    \/ EnterMain
    \/ \E ok \in BOOLEAN : ExtractZip(ok)
    \/ ReadFiles
    \/ ProjectCall
    \/ \E reply \in Responses \cup {Raise} : ProjectReturn(reply)
    \/ FileCall
    \/ \E reply \in Responses \cup {Raise} : FileReturn(reply)
    \/ \E result \in {"ok", "makedirs raises", "save raises"} : CreateDocx(result)
    \/ \E result \in {"ok", "write raises"} : CreateMarkdown(result)

Spec == Init /\ [][Next]_vars

(***************************************************************************)
(* What the two output files hold, read off the files.                     *)
(***************************************************************************)
IsFileHeading(block) == block[1] = "heading 2"

\* the level-2 headings of the .docx, in document order
DocxHeadings(d) ==
    LET hs == SelectSeq(d.body, IsFileHeading)
    IN  [i \in 1..Len(hs) |-> hs[i][2]]

\* the paragraphs that directly follow a level-2 heading with this text
DocxBodiesUnder(d, name) ==
    {d.body[i + 1][2] : i \in {j \in 1..(Len(d.body) - 1) :
                                   d.body[j] = <<"heading 2", name>>}}

\* s.split('\n')
RECURSIVE SplitLines(_)
SplitLines(s) ==
    LET nl == {i \in 1..Len(s) : s[i] = "\n"}
    IN  IF nl = {} THEN <<s>>
        ELSE LET i == CHOOSE x \in nl : \A y \in nl : x <= y
             IN  <<SubSeq(s, 1, i - 1)>> \o SplitLines(SubSeq(s, i + 1, Len(s)))

IsH3(line) == StartsWith(line, <<"#", "#", "#", " ">>)

\* the texts of the "### " lines of the .md, in file order
MdHeadings(m) ==
    LET hs == SelectSeq(SplitLines(m.body), IsH3)
    IN  [i \in 1..Len(hs) |-> Suffix(hs[i], 4)]

\* the run has left main
Ended ==
    pc \in {"done", "returned", "raised_extract", "raised_generate",
            "raised_makedirs", "raised_docx", "raised_markdown"}

\* main was left by a fatal failure of extraction or of an output write
FatalFailure ==
    pc \in {"raised_extract", "raised_makedirs", "raised_docx", "raised_markdown"}

\* the summary loop is over
Summarised ==
    pc \in {"docx", "markdown", "done", "raised_makedirs", "raised_docx",
            "raised_markdown"}

CorpusNames == [i \in 1..Len(file_data) |-> file_data[i][1]]

\* the text the pipeline holds for a reply of the backend
SummaryOf(reply) == IF reply = Raise THEN Sentinel ELSE Strip(reply)

\* the requests a run over this corpus is to make, in order
ExpectedCalls(fd) ==
    <<project_prompt(fd)>> \o [i \in 1..Len(fd) |-> file_prompt(fd[i][1], fd[i][2])]

\* no file of the archive is both of an allowed extension and readable
NoEligibleFile ==
    \A i \in 1..Len(archive) :
        ~(HasCodeExtension(archive[i].name) /\ archive[i].readable)

\* C4 (as claimed): a failing backend call never aborts the run; a run that
\* is done has written both outputs; and the .docx holds, under the
\* subheading of each file whose call failed, exactly the sentinel string.
C4_BackendFailureAbsorbed ==
    /\ pc # "raised_generate"
    /\ pc = "done" => (docx.state = "written" /\ md.state = "written")
    /\ docx.state = "written" =>
           \A i \in 1..Len(file_data) :
               outcomes[i + 1] = Raise =>
                   DocxBodiesUnder(docx, file_data[i][1]) = {Sentinel}

\* C5 (as claimed): after a fatal failure of the run neither output file
\* exists, whole or in part.
C5_NoOutputAfterFatalFailure ==
    FatalFailure => (docx = Absent /\ md = Absent)

\* C6: once main has ended, on whichever path, the temporary extraction
\* directory no longer exists.
C6_TempdirRemovedOnEveryExit == Ended => tempdir = FALSE

\* C6 witness: main ended by an error raised while the .md was written,
\* after the .docx was written, and the directory is gone.
C6_Witness ==
    pc = "raised_markdown" /\ docx.state = "written" /\ tempdir = FALSE

\* C7: when no file of the archive is eligible, the run ends by the early
\* return, without a backend call, an output file or the output directory.
C7_EmptyCorpusIsNoOp ==
    /\ pc = "returned" => NoEligibleFile
    /\ NoEligibleFile =>
           /\ pc \in {"cli", "raised_import", "not_found", "main", "extract",
                      "raised_extract", "read", "returned"}
           /\ calls = <<>>
           /\ inflight = 0
           /\ outputs_dir = FALSE
           /\ docx = Absent
           /\ md = Absent

\* C7 witness: the run returned early on an archive that holds a file of a
\* foreign extension and a code file that could not be read.
C7_Witness ==
    /\ pc = "returned"
    /\ \E i \in 1..Len(archive) : ~HasCodeExtension(archive[i].name)
    /\ \E i \in 1..Len(archive) :
           HasCodeExtension(archive[i].name) /\ ~archive[i].readable

\* C8 (as claimed): in both outputs the file subheadings are the file names
\* of the corpus, in corpus order and as many.
C8_SectionsFollowCorpus ==
    /\ docx.state = "written" => DocxHeadings(docx) = CorpusNames
    /\ md.state = "written" => MdHeadings(md) = CorpusNames

\* the stage order of main
StageOrder ==
    { <<"cli", "main">>, <<"cli", "raised_import">>, <<"cli", "not_found">>,
      <<"main", "extract">>,
      <<"extract", "read">>, <<"extract", "raised_extract">>,
      <<"read", "project">>, <<"read", "returned">>,
      <<"project", "project_wait">>,
      <<"project_wait", "files">>,
      <<"files", "file_wait">>,
      <<"file_wait", "files">>, <<"file_wait", "docx">>,
      <<"docx", "markdown">>, <<"docx", "raised_makedirs">>,
      <<"docx", "raised_docx">>,
      <<"markdown", "done">>, <<"markdown", "raised_markdown">> }

\* the requests made so far are the first ones of the expected list, at
\* most one is in flight, and nothing is written before the last returned
CallDiscipline ==
    /\ inflight \in {0, 1}
    /\ Len(calls) <= 1 + Len(file_data)
    /\ calls = Prefix(ExpectedCalls(file_data), Len(calls))
    /\ Len(outcomes) = Len(calls) - inflight
    /\ pc = "files" => (idx = Len(calls) /\ idx <= Len(file_data))
    /\ pc = "done" => calls = ExpectedCalls(file_data)
    /\ (docx # Absent \/ md # Absent \/ outputs_dir) =>
           /\ Len(calls) = 1 + Len(file_data)
           /\ Len(outcomes) = 1 + Len(file_data)
           /\ inflight = 0

\* C9: a run follows the linear stage order; it makes the project request
\* and then one request per corpus file in corpus order, 1 + N in all, each
\* once and never two at a time; no output is written before the last
\* request has returned.
C9_LinearStagesOneCallEach ==
    /\ []CallDiscipline
    /\ [][pc' # pc => <<pc, pc'>> \in StageOrder]_vars

\* C9 witness: a run over three files is done, one of its requests failed.
C9_Witness ==
    /\ pc = "done"
    /\ Len(file_data) = 3
    /\ Len(calls) = 4
    /\ \E i \in 1..4 : outcomes[i] = Raise

\* C10: when corpus files share a bare name, the mapping holds a single
\* entry for the name, with the summary of the last such file, its place
\* being the one of the first; a request was made for each of the files and
\* the run is not stopped.
C10_NameCollisionLastWins ==
    Summarised =>
        /\ Len(calls) = 1 + Len(file_data)
        /\ \A i \in 1..Len(file_data) :
               /\ calls[i + 1] = file_prompt(file_data[i][1], file_data[i][2])
               /\ Cardinality({k \in 1..Len(file_summaries) :
                                  file_summaries[k][1] = file_data[i][1]}) = 1
               /\ (\A j \in (i + 1)..Len(file_data) : file_data[j][1] # file_data[i][1])
                      => DictGet(file_summaries, file_data[i][1])
                             = SummaryOf(outcomes[i + 1])

\* C10 witness: two files of one name got different summaries, the loop is
\* over and the mapping holds the second one only.
C10_Witness ==
    /\ pc = "done"
    /\ \E i, j \in 1..Len(file_data) :
           /\ i < j
           /\ file_data[i][1] = file_data[j][1]
           /\ SummaryOf(outcomes[i + 1]) # SummaryOf(outcomes[j + 1])
           /\ DictGet(file_summaries, file_data[i][1]) = SummaryOf(outcomes[j + 1])
           /\ Len(file_summaries) < Len(file_data)

====
